---- MODULE Spec2Model ----
(***************************************************************************)
(* Model of src/usercase.py: the UseCaseAgent constructor and the          *)
(* four-step run() workflow (Neptune permission check, S3 permission       *)
(* check with live probe, CSV generation, batch load).                     *)
(*                                                                         *)
(* The external collaborators (IAM SimulatePrincipalPolicy, S3             *)
(* ListObjectsV2) are inputs: each call either returns a response or       *)
(* raises.  botocore raises two families of exception: ClientError (the    *)
(* service answered with an error) and errors outside that class           *)
(* (EndpointConnectionError, a BotoCoreError).  generate_csvs and          *)
(* batch_load are the replaceable steps whose contract, per their          *)
(* docstrings and the handling in run(), is True / False / exception.      *)
(***************************************************************************)
EXTENDS Integers, Sequences, FiniteSets, TLC

VARIABLES pc, exc, self, clients, summary, ret, calls,
          neptune_sim, s3_sim, probe, denied, s3_denied

vars == <<pc, exc, self, clients, summary, ret, calls,
          neptune_sim, s3_sim, probe, denied, s3_denied>>

(* ---------------- bounds ---------------- *)

\* longest EvaluationResults list a simulation response carries
MaxResults == 3

\* longest raw s3_prefix argument, in characters
MaxPrefixLen == 2

(* ---------------- program constants ---------------- *)

MaxKeys == 1

None == "None"

PRINCIPAL == "arn:aws:iam::123456789012:role/YourLambdaExecutionRole"

BUCKET == "your-csv-bucket-name"

GRAPH == "arn:aws:neptune-graph:us-east-1:123456789012:graph/g-abcdefgh"

N_STEP == "check_neptune_permissions"

S_STEP == "check_s3_permissions"

G_STEP == "generate_csvs"

B_STEP == "batch_load"

I_STEP == "identify_principal"

StepNames == {I_STEP, N_STEP, S_STEP, G_STEP, B_STEP}

(* ---------------- inputs ---------------- *)

\* neptune_mode arguments: the two recognised values and one that is not
Modes == {"graph", "db", "cluster"}

\* graph_arn arguments: None, the empty string (also falsy) and an ARN
GraphArns == {None, "", GRAPH}

Chars == {"/", "a"}

\* raw s3_prefix arguments, as sequences of characters
Prefixes == UNION {[1..n -> Chars] : n \in 0..MaxPrefixLen}

Decisions == {"allowed", "implicitDeny", "explicitDeny"}

\* exceptions a collaborator call can raise
ExcKinds == {"ClientError", "EndpointConnectionError"}

NotCalled == [kind |-> "none", results |-> <<>>, exc |-> None]

Resp(rs) == [kind |-> "resp", results |-> rs, exc |-> None]

Raise(e) == [kind |-> "raise", results |-> <<>>, exc |-> e]

\* EvaluationResults lists: one record per simulated action, each action at
\* most once (one result per requested action), any decision
ResultLists(actions) ==
  LET A == {actions[i] : i \in DOMAIN actions}
      Longest == IF MaxResults < Cardinality(A) THEN MaxResults
                 ELSE Cardinality(A)
      Names == {a \in UNION {[1..n -> A] : n \in 0..Longest} :
                  \A i, j \in DOMAIN a : a[i] = a[j] => i = j}
  IN  UNION {{[i \in DOMAIN a |->
                 [EvalActionName |-> a[i], EvalDecision |-> dd[i]]] :
               dd \in [DOMAIN a -> Decisions]} : a \in Names}

\* what iam.simulate_principal_policy can do for a list of actions
SimOutcomes(actions) ==
  {Resp(rs) : rs \in ResultLists(actions)} \cup {Raise(e) : e \in ExcKinds}

\* what s3.list_objects_v2 can do
ProbeOutcomes == {Resp(<<>>)} \cup {Raise(e) : e \in ExcKinds}

\* what generate_csvs / batch_load can do
StepOutcomes ==
  {[kind |-> "return", value |-> b, exc |-> None] : b \in BOOLEAN}
    \cup {[kind |-> "raise", value |-> FALSE, exc |-> e] : e \in ExcKinds}

(* ---------------- helpers ---------------- *)

RECURSIVE lstrip(_)
lstrip(s) == IF s # <<>> /\ Head(s) = "/" THEN lstrip(Tail(s)) ELSE s

RECURSIVE rstrip(_)
rstrip(s) ==
  IF s # <<>> /\ s[Len(s)] = "/" THEN rstrip(SubSeq(s, 1, Len(s) - 1)) ELSE s

\* str.strip("/")
strip(s) == rstrip(lstrip(s))

\* Python truthiness of graph_arn
Falsy(x) == x \in {None, ""}

\* isinstance(e, botocore.exceptions.ClientError)
IsClientError(e) == e = "ClientError"

\* str(e)
Str(e) ==
  CASE e = "ClientError" ->
         "An error occurred (AccessDenied) when calling the operation"
    [] e = "EndpointConnectionError" ->
         "Could not connect to the endpoint URL"
    [] OTHER -> e

\* d[k] = v on a dict
SetKey(d, k, v) == [f \in (DOMAIN d) \cup {k} |-> IF f = k THEN v ELSE d[f]]

\* summary[step][k] = v
SetEntry(sm, step, k, v) == [sm EXCEPT ![step] = SetKey(sm[step], k, v)]

neptune_actions(prefix) ==
  << prefix \o ":ReadDataViaQuery",
     prefix \o ":WriteDataViaQuery",
     prefix \o ":DeleteDataViaQuery" >>

s3_actions == <<"s3:GetObject", "s3:ListBucket">>

NoAgent ==
  [principal_arn |-> None, s3_bucket |-> None, s3_prefix |-> <<>>,
   graph_arn |-> None, neptune_mode |-> None, prefix |-> None,
   neptune_actions |-> <<>>, s3_actions |-> <<>>]

NoRet == [s \in {N_STEP, S_STEP, G_STEP, B_STEP} |-> "not_called"]

\* the request simulate_permissions sends
simulate_permissions(actions, resource_arns) ==
  [api |-> "iam.simulate_principal_policy",
   PolicySourceArn |-> self.principal_arn,
   ActionNames |-> actions,
   ResourceArns |-> resource_arns]

\* resource scope of the Neptune simulation
neptune_resource_arns ==
  IF Falsy(self.graph_arn) THEN << <<"*">> >> ELSE << <<self.graph_arn>> >>

bucket_arn == <<"arn:aws:s3:::", self.s3_bucket>>

object_arn ==
  IF self.s3_prefix # <<>>
    THEN <<"arn:aws:s3:::", self.s3_bucket, "/">> \o self.s3_prefix \o <<"/", "*">>
    ELSE <<"arn:aws:s3:::", self.s3_bucket, "/", "*">>

list_kwargs ==
  IF self.s3_prefix # <<>>
    THEN [api |-> "s3.list_objects_v2", Bucket |-> self.s3_bucket,
          MaxKeys |-> MaxKeys, Prefix |-> self.s3_prefix]
    ELSE [api |-> "s3.list_objects_v2", Bucket |-> self.s3_bucket,
          MaxKeys |-> MaxKeys]

\* variant: only an explicit deny is collected
RECURSIVE NeptuneDeniedExplicitOnly(_)
NeptuneDeniedExplicitOnly(rs) ==
  IF rs = <<>> THEN <<>>
  ELSE LET r == Head(rs)
       IN  (IF r.EvalDecision = "explicitDeny"
              THEN << <<r.EvalActionName, r.EvalDecision, <<>> >> >>
              ELSE <<>>) \o NeptuneDeniedExplicitOnly(Tail(rs))

\* the loop of check_neptune_permissions over EvaluationResults
RECURSIVE NeptuneDenied(_)
NeptuneDenied(rs) ==
  IF rs = <<>> THEN <<>>
  ELSE LET r == Head(rs)
       IN  (IF r.EvalDecision # "allowed"
              THEN << <<r.EvalActionName, r.EvalDecision, <<>> >> >>
              ELSE <<>>) \o NeptuneDenied(Tail(rs))

\* the loop of check_s3_permissions over EvaluationResults
RECURSIVE S3Denied(_)
S3Denied(rs) ==
  IF rs = <<>> THEN <<>>
  ELSE LET r == Head(rs)
       IN  (IF r.EvalDecision # "allowed"
              THEN << <<r.EvalActionName, r.EvalDecision>> >>
              ELSE <<>>) \o S3Denied(Tail(rs))

Return(b, d) == [kind |-> "return", value |-> b, exc |-> None, denied |-> d]

Raised(e) == [kind |-> "raise", value |-> FALSE, exc |-> e, denied |-> <<>>]

\* check_neptune_permissions, given what the simulation call did
check_neptune_permissions(sim) ==
  IF sim.kind = "raise" THEN Raised(sim.exc)
  ELSE LET d == NeptuneDenied(sim.results)
       IN  IF d # <<>> THEN Return(FALSE, d) ELSE Return(TRUE, d)

\* does check_s3_permissions reach the list_objects_v2 call
ProbeAttempted(sim) == sim.kind = "resp" /\ S3Denied(sim.results) = <<>>

\* check_s3_permissions, given what the simulation call and the probe did
check_s3_permissions(sim, pr) ==
  IF sim.kind = "raise"
    THEN IF IsClientError(sim.exc) THEN Return(FALSE, <<>>) ELSE Raised(sim.exc)
  ELSE LET d == S3Denied(sim.results)
       IN  IF d # <<>> THEN Return(FALSE, d)
           ELSE IF pr.kind = "resp" THEN Return(TRUE, d)
           ELSE IF IsClientError(pr.exc) THEN Return(FALSE, d)
           ELSE Raised(pr.exc)

RetOf(r) ==
  IF r.kind = "raise" THEN "raised" ELSE IF r.value THEN "True" ELSE "False"

(* ---------------- initial state ---------------- *)

Init ==
  /\ pc = "new"
  /\ exc = None
  /\ self = NoAgent
  /\ clients = {}
  /\ summary = <<>>
  /\ ret = NoRet
  /\ calls = <<>>
  /\ neptune_sim = NotCalled
  /\ s3_sim = NotCalled
  /\ probe = NotCalled
  /\ denied = <<>>
  /\ s3_denied = <<>>

(* ---------------- UseCaseAgent.__init__ ---------------- *)

UseCaseAgent_init ==
  /\ pc = "new"
  /\ \E s3_prefix \in Prefixes, graph_arn \in GraphArns, neptune_mode \in Modes :
       LET fields == [NoAgent EXCEPT !.principal_arn = PRINCIPAL,
                                     !.s3_bucket = BUCKET,
                                     !.s3_prefix = strip(s3_prefix),
                                     !.graph_arn = graph_arn,
                                     !.neptune_mode = neptune_mode]
           prefix == IF neptune_mode = "graph" THEN "neptune-graph"
                     ELSE "neptune-db"
       IN  /\ clients' = {"iam", "s3", "sts"}
           /\ IF neptune_mode \in {"graph", "db"}
                THEN /\ self' = [fields EXCEPT
                                   !.prefix = prefix,
                                   !.neptune_actions = neptune_actions(prefix),
                                   !.s3_actions = s3_actions]
                     /\ pc' = "ready"
                     /\ exc' = None
                ELSE /\ self' = fields
                     /\ pc' = "ctor_failed"
                     /\ exc' = "ValueError"
  /\ UNCHANGED <<summary, ret, calls, neptune_sim, s3_sim, probe, denied,
                 s3_denied>>

(* ---------------- UseCaseAgent.run ---------------- *)

\* the summary dict run() starts from
NewSummary ==
  [s \in StepNames |->
     IF s = I_STEP THEN [ok |-> TRUE, principal_arn |-> self.principal_arn]
     ELSE [ok |-> FALSE]]

run_begin ==
  /\ pc \in {"ready", "done"}
  /\ summary' = NewSummary
  /\ ret' = NoRet
  /\ calls' = <<>>
  /\ neptune_sim' = NotCalled
  /\ s3_sim' = NotCalled
  /\ probe' = NotCalled
  /\ denied' = <<>>
  /\ s3_denied' = <<>>
  /\ pc' = N_STEP
  /\ UNCHANGED <<exc, self, clients>>

\* variant: the except branch of step 1 records the error but does not return
run_check_neptune_noreturn ==
  /\ pc = N_STEP
  /\ \E sim \in SimOutcomes(self.neptune_actions) :
       LET r == check_neptune_permissions(sim)
       IN  /\ neptune_sim' = sim
           /\ calls' = Append(calls, simulate_permissions(self.neptune_actions,
                                                          neptune_resource_arns))
           /\ ret' = [ret EXCEPT ![N_STEP] = RetOf(r)]
           /\ denied' = r.denied
           /\ IF r.kind = "raise"
                THEN /\ summary' = SetEntry(summary, N_STEP, "error", Str(r.exc))
                     /\ pc' = S_STEP
                ELSE /\ summary' = SetEntry(summary, N_STEP, "ok", r.value)
                     /\ pc' = S_STEP
  /\ UNCHANGED <<exc, self, clients, s3_sim, probe, s3_denied>>

\* variant: step 1 has no try/except, an exception leaves run()
run_check_neptune_uncaught ==
  /\ pc = N_STEP
  /\ \E sim \in SimOutcomes(self.neptune_actions) :
       LET r == check_neptune_permissions(sim)
       IN  /\ neptune_sim' = sim
           /\ calls' = Append(calls, simulate_permissions(self.neptune_actions,
                                                          neptune_resource_arns))
           /\ ret' = [ret EXCEPT ![N_STEP] = RetOf(r)]
           /\ denied' = r.denied
           /\ IF r.kind = "raise"
                THEN /\ summary' = summary
                     /\ exc' = r.exc
                     /\ pc' = "escaped"
                ELSE /\ summary' = SetEntry(summary, N_STEP, "ok", r.value)
                     /\ exc' = exc
                     /\ pc' = S_STEP
  /\ UNCHANGED <<self, clients, s3_sim, probe, s3_denied>>

\* 1) Neptune permission check
run_check_neptune ==
  /\ pc = N_STEP
  /\ \E sim \in SimOutcomes(self.neptune_actions) :
       LET r == check_neptune_permissions(sim)
       IN  /\ neptune_sim' = sim
           /\ calls' = Append(calls, simulate_permissions(self.neptune_actions,
                                                          neptune_resource_arns))
           /\ ret' = [ret EXCEPT ![N_STEP] = RetOf(r)]
           /\ denied' = r.denied
           /\ IF r.kind = "raise"
                THEN /\ summary' = SetEntry(summary, N_STEP, "error", Str(r.exc))
                     /\ pc' = "done"
                ELSE /\ summary' = SetEntry(summary, N_STEP, "ok", r.value)
                     /\ pc' = S_STEP
  /\ UNCHANGED <<exc, self, clients, s3_sim, probe, s3_denied>>

\* variant: step 2 does not return when the check reports False
run_check_s3_noreturn ==
  /\ pc = S_STEP
  /\ \E sim \in SimOutcomes(self.s3_actions), pr \in ProbeOutcomes :
       LET r == check_s3_permissions(sim, pr)
           c1 == Append(calls, simulate_permissions(self.s3_actions,
                                                    <<bucket_arn, object_arn>>))
       IN  /\ s3_sim' = sim
           /\ probe' = IF ProbeAttempted(sim) THEN pr ELSE NotCalled
           /\ calls' = IF ProbeAttempted(sim) THEN Append(c1, list_kwargs) ELSE c1
           /\ ret' = [ret EXCEPT ![S_STEP] = RetOf(r)]
           /\ s3_denied' = r.denied
           /\ IF r.kind = "raise"
                THEN /\ summary' = SetEntry(summary, S_STEP, "error", Str(r.exc))
                     /\ pc' = "done"
                ELSE /\ summary' = SetEntry(summary, S_STEP, "ok", r.value)
                     /\ pc' = G_STEP
  /\ UNCHANGED <<exc, self, clients, neptune_sim, denied>>

\* variant: step 2 stores its result under the Neptune step's key
run_check_s3_wrongkey ==
  /\ pc = S_STEP
  /\ \E sim \in SimOutcomes(self.s3_actions), pr \in ProbeOutcomes :
       LET r == check_s3_permissions(sim, pr)
           c1 == Append(calls, simulate_permissions(self.s3_actions,
                                                    <<bucket_arn, object_arn>>))
       IN  /\ s3_sim' = sim
           /\ probe' = IF ProbeAttempted(sim) THEN pr ELSE NotCalled
           /\ calls' = IF ProbeAttempted(sim) THEN Append(c1, list_kwargs) ELSE c1
           /\ ret' = [ret EXCEPT ![S_STEP] = RetOf(r)]
           /\ s3_denied' = r.denied
           /\ IF r.kind = "raise"
                THEN /\ summary' = SetEntry(summary, S_STEP, "error", Str(r.exc))
                     /\ pc' = "done"
                ELSE /\ summary' = SetEntry(summary, N_STEP, "ok", r.value)
                     /\ pc' = IF r.value THEN G_STEP ELSE "done"
  /\ UNCHANGED <<exc, self, clients, neptune_sim, denied>>

\* 2) S3 permission check
run_check_s3 ==
  /\ pc = S_STEP
  /\ \E sim \in SimOutcomes(self.s3_actions), pr \in ProbeOutcomes :
       LET r == check_s3_permissions(sim, pr)
           c1 == Append(calls, simulate_permissions(self.s3_actions,
                                                    <<bucket_arn, object_arn>>))
       IN  /\ s3_sim' = sim
           /\ probe' = IF ProbeAttempted(sim) THEN pr ELSE NotCalled
           /\ calls' = IF ProbeAttempted(sim) THEN Append(c1, list_kwargs) ELSE c1
           /\ ret' = [ret EXCEPT ![S_STEP] = RetOf(r)]
           /\ s3_denied' = r.denied
           /\ IF r.kind = "raise"
                THEN /\ summary' = SetEntry(summary, S_STEP, "error", Str(r.exc))
                     /\ pc' = "done"
                ELSE /\ summary' = SetEntry(summary, S_STEP, "ok", r.value)
                     /\ pc' = IF r.value THEN G_STEP ELSE "done"
  /\ UNCHANGED <<exc, self, clients, neptune_sim, denied>>

\* variant: step 3 does not return when generation reports False
run_generate_csvs_noabort ==
  /\ pc = G_STEP
  /\ \E r \in StepOutcomes :
       /\ ret' = [ret EXCEPT ![G_STEP] = RetOf(r)]
       /\ IF r.kind = "raise"
            THEN /\ summary' = SetEntry(summary, G_STEP, "error", Str(r.exc))
                 /\ pc' = "done"
            ELSE /\ summary' = SetEntry(summary, G_STEP, "ok", r.value)
                 /\ pc' = B_STEP
  /\ UNCHANGED <<exc, self, clients, calls, neptune_sim, s3_sim, probe, denied,
                 s3_denied>>

\* 3) Generate CSVs
run_generate_csvs ==
  /\ pc = G_STEP
  /\ \E r \in StepOutcomes :
       /\ ret' = [ret EXCEPT ![G_STEP] = RetOf(r)]
       /\ IF r.kind = "raise"
            THEN /\ summary' = SetEntry(summary, G_STEP, "error", Str(r.exc))
                 /\ pc' = "done"
            ELSE /\ summary' = SetEntry(summary, G_STEP, "ok", r.value)
                 /\ pc' = IF r.value THEN B_STEP ELSE "done"
  /\ UNCHANGED <<exc, self, clients, calls, neptune_sim, s3_sim, probe, denied,
                 s3_denied>>

\* variant: step 4 without the check of the stored Neptune result
run_batch_load_nogate ==
  /\ pc = B_STEP
  /\ \E r \in StepOutcomes :
       /\ ret' = [ret EXCEPT ![B_STEP] = RetOf(r)]
       /\ IF r.kind = "raise"
            THEN summary' = SetEntry(summary, B_STEP, "error", Str(r.exc))
            ELSE summary' = SetEntry(summary, B_STEP, "ok", r.value)
  /\ pc' = "done"
  /\ UNCHANGED <<exc, self, clients, calls, neptune_sim, s3_sim, probe, denied,
                 s3_denied>>

\* 4) Batch load, behind the check of the stored Neptune result
run_batch_load ==
  /\ pc = B_STEP
  /\ \/ /\ ~summary[N_STEP].ok
        /\ UNCHANGED <<summary, ret>>
     \/ /\ summary[N_STEP].ok
        /\ \E r \in StepOutcomes :
             /\ ret' = [ret EXCEPT ![B_STEP] = RetOf(r)]
             /\ IF r.kind = "raise"
                  THEN summary' = SetEntry(summary, B_STEP, "error", Str(r.exc))
                  ELSE summary' = SetEntry(summary, B_STEP, "ok", r.value)
  /\ pc' = "done"
  /\ UNCHANGED <<exc, self, clients, calls, neptune_sim, s3_sim, probe, denied,
                 s3_denied>>

Next ==
  \/ UseCaseAgent_init
  \/ run_begin
  \/ run_check_neptune
  \/ run_check_s3
  \/ run_generate_csvs
  \/ run_batch_load

Spec == Init /\ [][Next]_vars

\* run() is sequential: a step that is reached is executed
LiveSpec == Init /\ [][Next]_vars /\ WF_vars(Next)

(* ---------------- properties ---------------- *)

\* a run() call is in progress or has returned: summary exists
InRun == pc \in {N_STEP, S_STEP, G_STEP, B_STEP, "done"}

Failed(s) == ret[s] \in {"False", "raised"}

\* step s was not invoked and its entry is the default {ok: False}
Untouched(s) == ret[s] = "not_called" /\ summary[s] = [ok |-> FALSE]

AllAllowed(rs) == \A i \in DOMAIN rs : rs[i].EvalDecision = "allowed"

HasError(s) == "error" \in DOMAIN summary[s]

\* C1 as stated: once the Neptune check, the S3 check or CSV generation
\* returns False or raises, no later step is invoked and every later entry
\* is still {ok: False}.
C1_ShortCircuitAnyFailure ==
  InRun =>
    /\ Failed(N_STEP) =>
         Untouched(S_STEP) /\ Untouched(G_STEP) /\ Untouched(B_STEP)
           /\ Len(calls) = 1
    /\ Failed(S_STEP) => Untouched(G_STEP) /\ Untouched(B_STEP)
    /\ Failed(G_STEP) => Untouched(B_STEP)

\* C1 amended: the short circuit holds once the Neptune check raises, or the
\* S3 check or CSV generation returns False or raises; a Neptune check that
\* returns False only keeps batch_load from being invoked.
C1_ShortCircuit ==
  InRun =>
    /\ ret[N_STEP] = "raised" =>
         Untouched(S_STEP) /\ Untouched(G_STEP) /\ Untouched(B_STEP)
           /\ Len(calls) = 1
    /\ ret[N_STEP] = "False" => Untouched(B_STEP)
    /\ Failed(S_STEP) => Untouched(G_STEP) /\ Untouched(B_STEP)
    /\ Failed(G_STEP) => Untouched(B_STEP)

C1_Witness ==
  /\ pc = "done"
  /\ ret[N_STEP] = "False"
  /\ ret[S_STEP] = "True"
  /\ ret[G_STEP] = "raised"

\* C2: batch_load is never invoked while the stored Neptune result is False,
\* and the summary then has batch_load.ok = False.
C2_NoLoadWithoutNeptune ==
  InRun =>
    (~summary[N_STEP].ok =>
       ret[B_STEP] = "not_called" /\ summary[B_STEP].ok = FALSE)

C2_Witness ==
  /\ pc = "done"
  /\ ~summary[N_STEP].ok
  /\ ret[N_STEP] = "False"
  /\ summary[S_STEP].ok
  /\ summary[G_STEP].ok

C3_Safe ==
  /\ pc # "ctor_failed" => exc = None
  /\ pc \in {"new", "ready", "ctor_failed"} \cup {N_STEP, S_STEP, G_STEP, B_STEP, "done"}
  /\ pc = "done" =>
       /\ DOMAIN summary = StepNames
       /\ \A s \in StepNames :
            "ok" \in DOMAIN summary[s] /\ summary[s].ok \in BOOLEAN

\* C3: whatever the four steps do (True, False, exception), a started run()
\* reaches its return with a summary of five entries, each with a boolean
\* ok, and no exception leaves run().
C3_AlwaysReturnsSummary == []C3_Safe /\ (pc = N_STEP ~> pc = "done")

C3_Witness ==
  /\ pc = "done"
  /\ ret[S_STEP] = "raised"
  /\ exc = None
  /\ DOMAIN summary = StepNames

\* C4 as stated: construction with an unrecognised mode fails with
\* ValueError and no client (IAM, S3, STS) has been created by then.
C4_InvalidModeNoClients ==
  /\ (pc # "new" /\ self.neptune_mode \notin {"graph", "db"}) =>
        pc = "ctor_failed" /\ exc = "ValueError"
  /\ pc = "ctor_failed" => clients = {}

\* C5 as stated: when the S3 simulation call raises, whatever the error,
\* check_s3_permissions returns False and the probe is not attempted.
C5_S3SimRaiseReturnsFalse ==
  (InRun /\ s3_sim.kind = "raise") =>
     ret[S_STEP] = "False" /\ probe = NotCalled

\* C6 as stated: check_s3_permissions returns True only if every decision is
\* "allowed" and the probe succeeded; a decision that is not "allowed" gives
\* False without a probe; clean decisions with a failing probe give False.
C6_S3TrueOnlyIfCleanAndProbed ==
  (InRun /\ s3_sim.kind = "resp") =>
    /\ ret[S_STEP] = "True" =>
         AllAllowed(s3_sim.results) /\ probe.kind = "resp"
    /\ ~AllAllowed(s3_sim.results) =>
         ret[S_STEP] = "False" /\ probe = NotCalled
    /\ (AllAllowed(s3_sim.results) /\ probe.kind = "raise") =>
         ret[S_STEP] = "False"

\* C7: check_neptune_permissions returns True iff every returned decision is
\* "allowed"; when it returns False the denial list holds every denied
\* action exactly once and no allowed action.
C7_NeptuneDecision ==
  (InRun /\ neptune_sim.kind = "resp") =>
    LET rs == neptune_sim.results
        Occ(a) == Cardinality({j \in DOMAIN denied : denied[j][1] = a})
    IN  /\ ret[N_STEP] \in {"True", "False"}
        /\ ret[N_STEP] = "True" <=> AllAllowed(rs)
        /\ ret[N_STEP] = "False" =>
             \A i \in DOMAIN rs :
                IF rs[i].EvalDecision # "allowed"
                  THEN Occ(rs[i].EvalActionName) = 1
                  ELSE Occ(rs[i].EvalActionName) = 0

C7_Witness ==
  /\ ret[N_STEP] = "False"
  /\ Len(neptune_sim.results) = 3
  /\ Len(denied) = 2

C8_State ==
  (InRun /\ ret[S_STEP] = "False") =>
    /\ pc = "done"
    /\ summary[S_STEP] = [ok |-> FALSE]
    /\ Untouched(G_STEP)
    /\ Untouched(B_STEP)

C8_Frame ==
  (pc = S_STEP /\ ret'[S_STEP] = "False") =>
    /\ summary'[I_STEP] = summary[I_STEP]
    /\ summary'[N_STEP] = summary[N_STEP]

\* C8: when the S3 check returns False, run() returns with
\* check_s3_permissions.ok = False, generate_csvs and batch_load both
\* {ok: False} without error key and not invoked, earlier entries unchanged.
C8_S3FalseStopsRun == []C8_State /\ [][C8_Frame]_vars

C8_Witness ==
  /\ pc = "done"
  /\ ret[S_STEP] = "False"
  /\ s3_sim.kind = "resp"
  /\ \E i \in DOMAIN s3_denied : s3_denied[i][1] = "s3:ListBucket"
  /\ summary[N_STEP].ok

\* the run ended in step s, later steps were not executed
EndedIn(s) ==
  /\ pc = "done"
  /\ s = N_STEP => Untouched(S_STEP)
  /\ Untouched(G_STEP)
  /\ Untouched(B_STEP)

ErrorRecorded(s, e) == HasError(s) /\ summary[s].error = Str(e)

\* C9 as stated: an exception of a simulation call or of the listing probe
\* is caught in run(), its message is stored under "error" in the entry of
\* the step that raised, and the run ends early.
C9_ErrorAlwaysRecorded ==
  InRun =>
    /\ neptune_sim.kind = "raise" =>
         ErrorRecorded(N_STEP, neptune_sim.exc) /\ EndedIn(N_STEP)
    /\ s3_sim.kind = "raise" =>
         ErrorRecorded(S_STEP, s3_sim.exc) /\ EndedIn(S_STEP)
    /\ probe.kind = "raise" =>
         ErrorRecorded(S_STEP, probe.exc) /\ EndedIn(S_STEP)

\* what run() records for an exception raised inside the S3 step
S3RaiseRecorded(e) ==
  IF IsClientError(e)
    THEN ret[S_STEP] = "False" /\ summary[S_STEP] = [ok |-> FALSE]
    ELSE ret[S_STEP] = "raised" /\ ErrorRecorded(S_STEP, e)
           /\ summary[S_STEP].ok = FALSE

\* C9 amended: an exception of the Neptune simulation, and an exception
\* other than ClientError of the S3 simulation or of the probe, is caught in
\* run() and its message stored under "error" in that step's entry; a
\* ClientError of the S3 simulation or of the probe is caught inside
\* check_s3_permissions, which returns False, so the entry is {ok: False}
\* without error key.  In every case the run ends without later steps.
C9_ErrorRecordedUnlessSwallowed ==
  InRun =>
    /\ neptune_sim.kind = "raise" =>
         ErrorRecorded(N_STEP, neptune_sim.exc) /\ EndedIn(N_STEP)
    /\ s3_sim.kind = "raise" =>
         S3RaiseRecorded(s3_sim.exc) /\ EndedIn(S_STEP)
    /\ probe.kind = "raise" =>
         S3RaiseRecorded(probe.exc) /\ EndedIn(S_STEP)

C9_Witness ==
  /\ pc = "done"
  /\ probe.kind = "raise"
  /\ ~IsClientError(probe.exc)
  /\ HasError(S_STEP)

\* C10: batch_load.ok = True in a summary implies the three earlier steps
\* ran, returned True and are recorded ok, and no entry has an error key.
C10_LoadOkImpliesAllOk ==
  InRun =>
    (summary[B_STEP].ok =>
       /\ summary[N_STEP].ok /\ summary[S_STEP].ok /\ summary[G_STEP].ok
       /\ ret = [s \in DOMAIN ret |-> "True"]
       /\ \A s \in StepNames : ~HasError(s))

C10_Witness == pc = "done" /\ summary[B_STEP].ok /\ Len(calls) = 3

====
